---- MODULE Spec2Model ----
(***************************************************************************)
(* A model of .github/workflows/scripts/ghstack-perm-check.py: the run of  *)
(* main() as a sequential process.  Every remote request, git command,     *)
(* sleep and posted comment is appended to `events`, so that what the run  *)
(* did, and in which order, can be read off the state.  The answers of     *)
(* the remote API and of git are chosen nondeterministically at the step   *)
(* that asks for them.                                                     *)
(*                                                                         *)
(* land_blocking_statuses is the list of line 15-17.  The source ships it  *)
(* empty with the comment "Fill in your own required tests here!"; it is   *)
(* a configuration point, so Init draws it from the subsets of Contexts    *)
(* (the empty list of the source included).                                *)
(*                                                                         *)
(* `clock` is time.time(); it moves by the length of each time.sleep only. *)
(* `reviews` and the status variables hold a response while the code that  *)
(* reads it can still run (the approval loop, one poll iteration).         *)
(***************************************************************************)
EXTENDS Integers, Sequences, FiniteSets, TLC

\* ---------------------------------------------------------------- bounds
MaxPR == 2          \* PR numbers are 1..MaxPR
MaxStack == 3       \* longest extracted pr_numbers list
MaxReviews == 2     \* longest list of reviews in one response
MaxStatuses == 2    \* longest list of statuses in one response
MaxWaitBound == 31  \* largest --max-wait-time explored (seconds)

\* ----------------------------------------------------- program constants
SettlePause == 2    \* time.sleep(2)
PollInterval == 30  \* time.sleep(30)

\* ------------------------------------------------------------ value sets
PRs == 1..MaxPR

RECURSIVE SeqsUpTo(_, _)
SeqsUpTo(S, n) ==
    IF n = 0 THEN {<<>>}
    ELSE LET shorter == SeqsUpTo(S, n - 1)
         IN  shorter \cup {Append(s, x) : s \in shorter, x \in S}

Range(s) == {s[i] : i \in 1..Len(s)}

ReviewStates == {"APPROVED", "COMMENTED"}
ReviewLists == SeqsUpTo(ReviewStates, MaxReviews)

Contexts == {"ci/build", "ci/lint"}
StatusStates == {"failure", "pending", "success", "error"}
StatusRecords == [context : Contexts, state : StatusStates]
StatusLists == SeqsUpTo(StatusRecords, MaxStatuses)

\* mergeable_state values the remote may report; a response without the
\* field reads as "unknown" through pr_obj.get("mergeable_state", "unknown").
MergeStates == {"unknown", "unstable", "blocked", "dirty", "clean", "behind"}

Stacks == SeqsUpTo(PRs, MaxStack)

\* Head refs as sequences of one-character strings.
Ref_alice == <<"g","h","/","a","/","7","/","h","e","a","d">>
Ref_feature == <<"f","e","a","t","u","r","e","/","f","o","o">>
HeadRefs == {Ref_alice, Ref_feature, <<>>}

MaxWaitTimes == {0, MaxWaitBound}

\* ----------------------------------------------------------------- state
VARIABLES
    pc,                      \* position of the run in main()
    NUMBER,                  \* args.pr_number
    head_ref,                \* args.head_ref
    MAX_WAIT_TIME,           \* args.max_wait_time
    land_blocking_statuses,  \* the blocking list of check_blocking_statuses
    orig_ref,                \* head_ref.replace("/head", "/orig")
    pr_numbers,              \* the extracted stack
    n_idx,                   \* position of the approval loop in pr_numbers
    reviews,                 \* body of the last reviews response, in the loop
    pr_number,               \* argument of check_pr_status
    waiting_comment_posted,
    start_time,
    clock,                   \* time.time()
    mergeable_state,
    iter_fetches,            \* pull-request-details requests of this iteration
    statuses,                \* body of the combined-status response of this iteration
    status_result,
    relevant_statuses,
    failure,                 \* the message of the must() that failed
    exit_code,               \* -1 while running
    events                   \* everything the run did, in order

vars == <<pc, NUMBER, head_ref, MAX_WAIT_TIME, land_blocking_statuses, orig_ref,
          pr_numbers, n_idx, reviews, pr_number, waiting_comment_posted,
          start_time, clock, mergeable_state, iter_fetches, statuses,
          status_result, relevant_statuses, failure, exit_code, events>>

\* ------------------------------------------------------- messages, events
Msg(kind, pr, names) == [kind |-> kind, pr |-> pr, names |-> names]
NoMsg == Msg("", 0, <<>>)

Event(op, pr, msg) == [op |-> op, pr |-> pr, msg |-> msg]
EvGitFetch(ref) == Event("git_fetch", 0, Msg("ref", 0, ref))
EvGitLog == Event("git_log", 0, NoMsg)
EvGetReviews(n) == Event("get_reviews", n, NoMsg)
EvGetPR(n) == Event("get_pr", n, NoMsg)
EvGetStatus(n) == Event("get_status", n, NoMsg)
EvSleep(seconds) == Event("sleep", seconds, NoMsg)
EvPost(thread, msg) == Event("post_comment", thread, msg)

\* ------------------------------------------------------- pure functions
Digits == {"0", "1", "2", "3", "4", "5", "6", "7", "8", "9"}
Letters == {"a", "b", "c", "d", "e", "f", "g", "h", "i", "j", "k", "l", "m",
            "n", "o", "p", "q", "r", "s", "t", "u", "v", "w", "x", "y", "z"}
AuthorChars == Letters \cup Digits \cup {"-"}

Str_gh == <<"g", "h", "/">>
Str_head == <<"/", "h", "e", "a", "d">>
Str_orig == <<"/", "o", "r", "i", "g">>
Str_main == <<"m", "a", "i", "n">>

\* gh/[A-Za-z0-9-]+/[0-9]+/head, the whole of s
ghstack_body(s) ==
    \E i \in 5..Len(s) : \E j \in (i + 2)..Len(s) :
        /\ SubSeq(s, 1, 3) = Str_gh
        /\ \A k \in 4..(i - 1) : s[k] \in AuthorChars
        /\ s[i] = "/"
        /\ \A k \in (i + 1)..(j - 1) : s[k] \in Digits
        /\ SubSeq(s, j, Len(s)) = Str_head

\* re.match(r"^gh/[A-Za-z0-9-]+/[0-9]+/head$", s): `$` also matches just
\* before a newline that ends the string.
ghstack_ref_match(s) ==
    \/ ghstack_body(s)
    \/ /\ Len(s) > 0
       /\ s[Len(s)] = "\n"
       /\ ghstack_body(SubSeq(s, 1, Len(s) - 1))

\* the condition of the first must: head_ref and re.match(...)
valid_head_ref(s) == s # <<>> /\ ghstack_ref_match(s)

\* str.replace(old, new): every non-overlapping occurrence, left to right
RECURSIVE str_replace(_, _, _)
str_replace(s, old, new) ==
    IF Len(s) < Len(old) THEN s
    ELSE IF SubSeq(s, 1, Len(old)) = old
         THEN new \o str_replace(SubSeq(s, Len(old) + 1, Len(s)), old, new)
         ELSE <<s[1]>> \o str_replace(Tail(s), old, new)

\* mutant: NUMBER is looked for anywhere in the list
stack_ok_anywhere(numbers, number) == number \in Range(numbers)

\* the condition of the stack integrity must
stack_ok(numbers, number) == numbers # <<>> /\ numbers[1] = number

\* mutant: all() instead of any()
has_approval_all(rs) == \A i \in 1..Len(rs) : rs[i] = "APPROVED"

\* any(review["state"] == "APPROVED" for review in reviews)
has_approval(rs) == \E i \in 1..Len(rs) : rs[i] = "APPROVED"

\* mutant: the membership test of the blocking list is left out
blocking_with_state_unfiltered(sts, blocking, state) ==
    LET sel == SelectSeq(sts, LAMBDA r : r.state = state)
    IN  [i \in 1..Len(sel) |-> sel[i].context]

\* the contexts of the records of sts that are in the blocking list and
\* have the given state, in the order of sts
blocking_with_state(sts, blocking, state) ==
    LET sel == SelectSeq(sts, LAMBDA r : r.context \in blocking /\ r.state = state)
    IN  [i \in 1..Len(sel) |-> sel[i].context]

\* mutant: pending is looked at before failure
check_blocking_statuses_pending_first(sts, blocking) ==
    LET failed_statuses == blocking_with_state(sts, blocking, "failure")
        pending_statuses == blocking_with_state(sts, blocking, "pending")
    IN  IF pending_statuses # <<>> THEN <<"pending", pending_statuses>>
        ELSE IF failed_statuses # <<>> THEN <<"failed", failed_statuses>>
        ELSE <<"success", <<>>>>

\* mutant: the pending branch is an `else`, so every blocking record that is
\* not failing counts as pending
check_blocking_statuses_else_pending(sts, blocking) ==
    LET failed_statuses == blocking_with_state(sts, blocking, "failure")
        pending_statuses ==
            LET sel == SelectSeq(sts, LAMBDA r : r.context \in blocking
                                                 /\ r.state # "failure")
            IN  [i \in 1..Len(sel) |-> sel[i].context]
    IN  IF failed_statuses # <<>> THEN <<"failed", failed_statuses>>
        ELSE IF pending_statuses # <<>> THEN <<"pending", pending_statuses>>
        ELSE <<"success", <<>>>>

check_blocking_statuses(sts, blocking) ==
    LET failed_statuses == blocking_with_state(sts, blocking, "failure")
        pending_statuses == blocking_with_state(sts, blocking, "pending")
    IN  IF failed_statuses # <<>> THEN <<"failed", failed_statuses>>
        ELSE IF pending_statuses # <<>> THEN <<"pending", pending_statuses>>
        ELSE <<"success", <<>>>>

\* mutant: >= in place of >
timed_out_ge(now, start, max_wait) == now - start >= max_wait

\* mutant: the maximum is taken for minutes
timed_out_minutes(now, start, max_wait) == now - start > max_wait * 60

\* elapsed_time > MAX_WAIT_TIME
timed_out(now, start, max_wait) == now - start > max_wait

\* mutant: the messages of blocked and dirty are swapped
terminal_kind_swapped(state) ==
    IF state = "blocked" THEN "Dirty"
    ELSE IF state = "dirty" THEN "Blocked"
    ELSE IF state = "clean" THEN "return"
    ELSE "UnexpectedState"

\* mutant: a merge state still being computed is let through like clean
terminal_kind_lenient(state) ==
    IF state = "blocked" THEN "Blocked"
    ELSE IF state = "dirty" THEN "Dirty"
    ELSE IF state \in {"clean", "unknown"} THEN "return"
    ELSE "UnexpectedState"

\* the if/elif chain on a mergeable_state other than "unstable"
terminal_kind(state) ==
    IF state = "blocked" THEN "Blocked"
    ELSE IF state = "dirty" THEN "Dirty"
    ELSE IF state = "clean" THEN "return"
    ELSE "UnexpectedState"

\* ------------------------------------------------------------------ Init
StartClock == 7     \* time.time() when the run begins

Defaults ==
    /\ orig_ref = <<>>
    /\ pr_numbers = <<>>
    /\ n_idx = 0
    /\ reviews = <<>>
    /\ pr_number = 0
    /\ waiting_comment_posted = FALSE
    /\ start_time = 0
    /\ clock = StartClock
    /\ mergeable_state = ""
    /\ iter_fetches = 0
    /\ statuses = <<>>
    /\ status_result = ""
    /\ relevant_statuses = <<>>
    /\ failure = NoMsg
    /\ exit_code = -1
    /\ events = <<>>

Init ==
    /\ pc = "validate_ref"
    /\ NUMBER \in PRs
    /\ head_ref \in HeadRefs
    /\ MAX_WAIT_TIME \in MaxWaitTimes
    /\ land_blocking_statuses \in SUBSET Contexts
    /\ Defaults

args == <<NUMBER, head_ref, MAX_WAIT_TIME, land_blocking_statuses>>
gate_vars == <<pr_numbers, n_idx, reviews>>
poll_vars == <<pr_number, waiting_comment_posted, start_time, mergeable_state,
               iter_fetches>>
status_vars == <<statuses, status_result, relevant_statuses>>

\* mutant: the loop is left after its first pass
loop_over_after_first(idx, numbers) == idx > 1

\* `for n in pr_numbers` has no PR left
loop_over(idx, numbers) == idx > Len(numbers)

\* mutant: the last PR of the stack is taken
first_pr_last(numbers) == numbers[Len(numbers)]

\* first_pr = pr_numbers[0]
first_pr(numbers) == numbers[1]

\* mutant: `while mergeable_state == "unknown"` in place of `if`
after_settle_retry(state) ==
    IF state = "unknown" THEN "poll_settle" ELSE "poll_decide"

\* where the iteration goes on after the settle re-fetch: the if/elif
\* chain, whatever the refreshed value
after_settle(state) == "poll_decide"

\* mutant: the success note is posted whether or not the run waited
clean_note_always(posted, pr) == <<EvPost(pr, Msg("Success", pr, <<>>))>>

\* clean: "If waiting comment was posted, post a follow-up"
clean_note(posted, pr) ==
    IF posted THEN <<EvPost(pr, Msg("Success", pr, <<>>))>> ELSE <<>>

\* mutant: exit(0) after the failure comment
must_fail_exit0(done, msg) ==
    /\ events' = events \o done \o <<EvPost(NUMBER, msg)>>
    /\ failure' = msg
    /\ exit_code' = 0
    /\ pc' = "exited"

\* must(False, msg), after the run did `done` in the same step: post the
\* failure comment on the thread of NUMBER and exit(1)
must_fail(done, msg) ==
    /\ events' = events \o done \o <<EvPost(NUMBER, msg)>>
    /\ failure' = msg
    /\ exit_code' = 1
    /\ pc' = "exited"

\* a step that passed its musts and goes on at `next`
go_on(done, next) ==
    /\ events' = events \o done
    /\ pc' = next
    /\ UNCHANGED <<failure, exit_code>>

\* --------------------------------------------------------------- actions
ValidateRef ==
    /\ pc = "validate_ref"
    /\ IF valid_head_ref(head_ref)
       THEN /\ orig_ref' = str_replace(head_ref, Str_head, Str_orig)
            /\ go_on(<<>>, "fetch_main")
       ELSE /\ must_fail(<<>>, Msg("InvalidRef", 0, <<>>))
            /\ UNCHANGED orig_ref
    /\ UNCHANGED <<args, gate_vars, poll_vars, status_vars, clock>>

FetchMain ==
    /\ pc = "fetch_main"
    /\ \E ok \in BOOLEAN :
        IF ok THEN go_on(<<EvGitFetch(Str_main)>>, "fetch_orig")
        ELSE must_fail(<<EvGitFetch(Str_main)>>, Msg("FetchMainError", 0, <<>>))
    /\ UNCHANGED <<args, orig_ref, gate_vars, poll_vars, status_vars, clock>>

FetchOrig ==
    /\ pc = "fetch_orig"
    /\ \E ok \in BOOLEAN :
        IF ok THEN go_on(<<EvGitFetch(orig_ref)>>, "git_log")
        ELSE must_fail(<<EvGitFetch(orig_ref)>>, Msg("FetchOrigError", 0, <<>>))
    /\ UNCHANGED <<args, orig_ref, gate_vars, poll_vars, status_vars, clock>>

\* git log, and the PR numbers re.findall takes from its output
RunGitLog ==
    /\ pc = "git_log"
    /\ \E ok \in BOOLEAN, found \in Stacks :
        IF ok
        THEN /\ pr_numbers' = found
             /\ go_on(<<EvGitLog>>, "check_stack")
        ELSE /\ must_fail(<<EvGitLog>>, Msg("LogError", 0, <<>>))
             /\ UNCHANGED pr_numbers
    /\ UNCHANGED <<args, orig_ref, n_idx, reviews, poll_vars, status_vars, clock>>

CheckStack ==
    /\ pc = "check_stack"
    /\ IF stack_ok(pr_numbers, NUMBER)
       THEN /\ n_idx' = 1
            /\ go_on(<<>>, "approvals")
       ELSE /\ must_fail(<<>>, Msg("StackMismatch", 0, <<>>))
            /\ UNCHANGED n_idx
    /\ UNCHANGED <<args, orig_ref, pr_numbers, reviews, poll_vars, status_vars, clock>>

\* one pass of `for n in pr_numbers`
CheckApproval ==
    /\ pc = "approvals"
    /\ ~loop_over(n_idx, pr_numbers)
    /\ LET n == pr_numbers[n_idx]
       IN  \E ok \in BOOLEAN, body \in ReviewLists :
            IF ~ok
            THEN /\ must_fail(<<EvGetReviews(n)>>, Msg("ReviewFetchError", n, <<>>))
                 /\ UNCHANGED <<reviews, n_idx>>
            ELSE /\ reviews' = body
                 /\ IF has_approval(body)
                    THEN /\ n_idx' = n_idx + 1
                         /\ go_on(<<EvGetReviews(n)>>, "approvals")
                    ELSE /\ must_fail(<<EvGetReviews(n)>>, Msg("NotApproved", n, <<>>))
                         /\ UNCHANGED n_idx
    /\ UNCHANGED <<args, orig_ref, pr_numbers, poll_vars, status_vars, clock>>

\* the loop is over: `if pr_numbers:` and the entry of check_pr_status
StartPoll ==
    /\ pc = "approvals"
    /\ loop_over(n_idx, pr_numbers)
    /\ IF pr_numbers # <<>>
       THEN /\ pr_number' = first_pr(pr_numbers)
            /\ waiting_comment_posted' = FALSE
            /\ start_time' = clock
            /\ iter_fetches' = 0
            /\ go_on(<<>>, "poll_fetch")
       ELSE /\ go_on(<<>>, "done")
            /\ UNCHANGED <<pr_number, waiting_comment_posted, start_time, iter_fetches>>
    /\ reviews' = <<>>      \* the last response is dead once the loop is over
    /\ UNCHANGED <<args, orig_ref, pr_numbers, n_idx, mergeable_state, status_vars, clock>>

\* the top of `while True`: the pull-request details
PollFetch ==
    /\ pc = "poll_fetch"
    /\ iter_fetches' = 1
    /\ \E ok \in BOOLEAN, state \in MergeStates :
        IF ~ok
        THEN /\ must_fail(<<EvGetPR(pr_number)>>, Msg("PRFetchError", pr_number, <<>>))
             /\ UNCHANGED mergeable_state
        ELSE /\ mergeable_state' = state
             /\ go_on(<<EvGetPR(pr_number)>>,
                      IF state = "unknown" THEN "poll_settle" ELSE "poll_decide")
    \* a new iteration: the status response of the last one is dead
    /\ statuses' = <<>>
    /\ status_result' = ""
    /\ relevant_statuses' = <<>>
    /\ UNCHANGED <<args, orig_ref, gate_vars, pr_number, waiting_comment_posted,
                   start_time, clock>>

\* mergeable_state == "unknown": sleep(2) and fetch once more
PollSettle ==
    /\ pc = "poll_settle"
    /\ clock' = clock + SettlePause
    /\ iter_fetches' = iter_fetches + 1
    /\ LET done == <<EvSleep(SettlePause), EvGetPR(pr_number)>>
       IN  \E ok \in BOOLEAN, state \in MergeStates :
            IF ~ok
            THEN /\ must_fail(done, Msg("PRFetchRetryError", pr_number, <<>>))
                 /\ UNCHANGED mergeable_state
            ELSE /\ mergeable_state' = state
                 /\ go_on(done, after_settle(state))
    /\ UNCHANGED <<args, orig_ref, gate_vars, pr_number, waiting_comment_posted,
                   start_time, status_vars>>

\* unstable, and elapsed_time > MAX_WAIT_TIME
PollTimeout ==
    /\ pc = "poll_decide"
    /\ mergeable_state = "unstable"
    /\ timed_out(clock, start_time, MAX_WAIT_TIME)
    /\ must_fail(<<>>, Msg("Timeout", pr_number, <<>>))
    /\ UNCHANGED <<args, orig_ref, gate_vars, poll_vars, status_vars, clock>>

\* mutant: the test of the flag is inverted
waiting_note_inverted(posted, pr) ==
    IF posted THEN <<EvPost(pr, Msg("Waiting", pr, <<>>))>> ELSE <<>>

\* mutant: the waiting note is posted whether or not one was posted before
waiting_note_always(posted, pr) == <<EvPost(pr, Msg("Waiting", pr, <<>>))>>

\* "Post waiting comment if not already posted"
waiting_note(posted, pr) ==
    IF posted THEN <<>> ELSE <<EvPost(pr, Msg("Waiting", pr, <<>>))>>

\* unstable, in time: the combined status, its classification, and what
\* follows it (fail, return, or wait and `continue`)
PollStatus ==
    /\ pc = "poll_decide"
    /\ mergeable_state = "unstable"
    /\ ~timed_out(clock, start_time, MAX_WAIT_TIME)
    /\ \E ok \in BOOLEAN, body \in StatusLists :
        LET get == <<EvGetStatus(pr_number)>>
            res == check_blocking_statuses(body, land_blocking_statuses)
        IN  IF ~ok
            THEN /\ must_fail(get, Msg("StatusFetchError", pr_number, <<>>))
                 /\ UNCHANGED <<status_vars, waiting_comment_posted, clock>>
            ELSE IF res[1] = "failed"
            THEN /\ must_fail(get, Msg("FailedChecks", pr_number, res[2]))
                 /\ statuses' = body
                 /\ status_result' = res[1]
                 /\ relevant_statuses' = res[2]
                 /\ UNCHANGED <<waiting_comment_posted, clock>>
            ELSE IF res[1] = "success"
            THEN /\ go_on(get \o <<EvPost(pr_number, Msg("Success", pr_number, <<>>))>>,
                          "returned")
                 /\ statuses' = body
                 /\ status_result' = res[1]
                 /\ relevant_statuses' = res[2]
                 /\ UNCHANGED <<waiting_comment_posted, clock>>
            ELSE /\ go_on(get \o waiting_note(waiting_comment_posted, pr_number)
                              \o <<EvSleep(PollInterval)>>,
                          "poll_fetch")
                 /\ statuses' = body
                 /\ status_result' = res[1]
                 /\ relevant_statuses' = res[2]
                 /\ waiting_comment_posted' = TRUE
                 /\ clock' = clock + PollInterval
    /\ UNCHANGED <<args, orig_ref, gate_vars, pr_number, start_time,
                   mergeable_state, iter_fetches>>

\* "Exit the loop if we've reached a terminal state"
PollTerminal ==
    /\ pc = "poll_decide"
    /\ mergeable_state # "unstable"
    /\ LET kind == terminal_kind(mergeable_state)
       IN  IF kind = "return"
           THEN go_on(clean_note(waiting_comment_posted, pr_number), "returned")
           ELSE must_fail(<<>>, Msg(kind, pr_number,
                                    IF kind = "UnexpectedState"
                                    THEN <<mergeable_state>> ELSE <<>>))
    /\ UNCHANGED <<args, orig_ref, gate_vars, poll_vars, status_vars, clock>>

\* check_pr_status returned: "SUCCESS!", "All PRs are ready to be landed!"
Finish ==
    /\ pc = "returned"
    /\ pc' = "done"
    /\ exit_code' = 0
    /\ UNCHANGED <<args, orig_ref, gate_vars, poll_vars, status_vars, clock,
                   failure, events>>

Next ==
    \/ ValidateRef
    \/ FetchMain
    \/ FetchOrig
    \/ RunGitLog
    \/ CheckStack
    \/ CheckApproval
    \/ StartPoll
    \/ PollFetch
    \/ PollSettle
    \/ PollTimeout
    \/ PollStatus
    \/ PollTerminal
    \/ Finish

Spec == Init /\ [][Next]_vars

\* ------------------------------------------- the classifier on its own
\* check_blocking_statuses applied to every status list and blocking list
InitClassifier ==
    /\ pc = "classify"
    /\ NUMBER = 1
    /\ head_ref = <<>>
    /\ MAX_WAIT_TIME = 0
    /\ land_blocking_statuses \in SUBSET Contexts
    /\ orig_ref = <<>>
    /\ pr_numbers = <<>>
    /\ n_idx = 0
    /\ reviews = <<>>
    /\ pr_number = 0
    /\ waiting_comment_posted = FALSE
    /\ start_time = 0
    /\ clock = StartClock
    /\ mergeable_state = ""
    /\ iter_fetches = 0
    /\ statuses \in StatusLists
    /\ status_result = ""
    /\ relevant_statuses = <<>>
    /\ failure = NoMsg
    /\ exit_code = -1
    /\ events = <<>>

Classify ==
    /\ pc = "classify"
    /\ LET res == check_blocking_statuses(statuses, land_blocking_statuses)
       IN  /\ status_result' = res[1]
           /\ relevant_statuses' = res[2]
    /\ pc' = "classified"
    /\ UNCHANGED <<args, orig_ref, gate_vars, poll_vars, statuses, clock,
                   failure, exit_code, events>>

NextClassifier == Classify

SpecClassifier == InitClassifier /\ [][NextClassifier]_vars

\* ========================================================== properties
\* The contexts of the records of sts whose context is in `blocking` and
\* whose state is `state`, in input order (written out recursively).
RECURSIVE ContextsOf(_, _, _)
ContextsOf(sts, blocking, state) ==
    IF sts = <<>> THEN <<>>
    ELSE (IF Head(sts).context \in blocking /\ Head(sts).state = state
          THEN <<Head(sts).context>> ELSE <<>>)
         \o ContextsOf(Tail(sts), blocking, state)

BlockingHas(sts, blocking, state) ==
    \E i \in 1..Len(sts) : sts[i].context \in blocking /\ sts[i].state = state

\* C7: whenever a record of the blocking set has state failure, the
\* classification is "failed" and the names are exactly the contexts of the
\* failing blocking records, in input order, whatever is pending.
C7_FailurePrecedence ==
    (pc = "classified" /\ BlockingHas(statuses, land_blocking_statuses, "failure"))
    => /\ status_result = "failed"
       /\ relevant_statuses = ContextsOf(statuses, land_blocking_statuses, "failure")

\* C7's case: a failing and a pending blocking record in one list.
C7_Witness ==
    /\ pc = "classified"
    /\ BlockingHas(statuses, land_blocking_statuses, "failure")
    /\ BlockingHas(statuses, land_blocking_statuses, "pending")
    /\ status_result = "failed"

\* C8: with no failing blocking record and at least one pending one, the
\* classification is "pending" and the names are exactly the contexts of the
\* pending blocking records.
C8_Pending ==
    (/\ pc = "classified"
     /\ ~BlockingHas(statuses, land_blocking_statuses, "failure")
     /\ BlockingHas(statuses, land_blocking_statuses, "pending"))
    => /\ status_result = "pending"
       /\ relevant_statuses = ContextsOf(statuses, land_blocking_statuses, "pending")

\* C8's case: a pending blocking record beside a blocking record in another
\* state and no failing one.
C8_Witness ==
    /\ pc = "classified"
    /\ ~BlockingHas(statuses, land_blocking_statuses, "failure")
    /\ BlockingHas(statuses, land_blocking_statuses, "pending")
    /\ BlockingHas(statuses, land_blocking_statuses, "error")
    /\ status_result = "pending"
    /\ Len(relevant_statuses) = 1

\* C9, on single edits of the list: with the record at position i removed,
\* with its state changed, or with a record put in before position i
RemoveAt(sts, i) == SubSeq(sts, 1, i - 1) \o SubSeq(sts, i + 1, Len(sts))
InsertAt(sts, i, r) == SubSeq(sts, 1, i - 1) \o <<r>> \o SubSeq(sts, i, Len(sts))
SetState(sts, i, st) == [sts EXCEPT ![i] = [context |-> sts[i].context, state |-> st]]

\* C9: adding, removing or changing the state of a record whose context is
\* not in the blocking set leaves the result as it is; and when no blocking
\* record is failing or pending the result is "success" with no names.
C9_NonBlockingIgnored ==
    pc = "classified" =>
      LET blocking == land_blocking_statuses
          result == <<status_result, relevant_statuses>>
      IN  /\ \A i \in 1..Len(statuses) :
                statuses[i].context \notin blocking =>
                  /\ check_blocking_statuses(RemoveAt(statuses, i), blocking) = result
                  /\ \A st \in StatusStates :
                       check_blocking_statuses(SetState(statuses, i, st), blocking)
                         = result
          /\ \A i \in 1..(Len(statuses) + 1) :
                \A r \in StatusRecords :
                   r.context \notin blocking =>
                     check_blocking_statuses(InsertAt(statuses, i, r), blocking) = result
          /\ (/\ ~BlockingHas(statuses, blocking, "failure")
              /\ ~BlockingHas(statuses, blocking, "pending"))
             => result = <<"success", <<>>>>

\* C9's case: a failing record outside a non-empty blocking set, beside a
\* blocking record that is neither failing nor pending.
C9_Witness ==
    /\ pc = "classified"
    /\ land_blocking_statuses # {}
    /\ \E i \in 1..Len(statuses) :
          statuses[i].context \notin land_blocking_statuses
          /\ statuses[i].state = "failure"
    /\ \E i \in 1..Len(statuses) : statuses[i].context \in land_blocking_statuses
    /\ status_result = "success"

\* ------------------------------------------------- what the run has done
EventsOf(ops) == SelectSeq(events, LAMBDA e : e.op \in ops)
PRsOf(evs) == [i \in 1..Len(evs) |-> evs[i].pr]
ReviewRequests == PRsOf(EventsOf({"get_reviews"}))
PollRequests == EventsOf({"get_pr", "get_status"})
RemoteReads == EventsOf({"get_reviews", "get_pr", "get_status"})
Comments == EventsOf({"post_comment"})
Ended == pc \in {"done", "exited"}
ApprovedIn(rs) == "APPROVED" \in Range(rs)
FailureComment(msg) == EvPost(NUMBER, msg)
SuccessComment == EvPost(pr_number, Msg("Success", pr_number, <<>>))

\* C1: the approval gate fails fast.  The reviews requests made are always
\* those of a prefix of the stack, in stack order; the loop only moves past a
\* PR whose reviews held an APPROVED one; and when the reviews of the PR at
\* position k hold none, the run has ended with exit status 1 and the failure
\* naming that PR, after reviews requests for positions 1..k only and no
\* other remote read.
C1_ApprovalFailFast ==
    /\ Len(ReviewRequests) <= Len(pr_numbers)
    /\ ReviewRequests = SubSeq(pr_numbers, 1, Len(ReviewRequests))
    /\ (pc = "approvals" /\ n_idx > 1) => ApprovedIn(reviews)
    /\ (pc = "approvals" /\ n_idx >= 1) => Len(ReviewRequests) = n_idx - 1
    /\ (Len(ReviewRequests) >= 1 /\ Len(ReviewRequests) = n_idx
        /\ failure.kind # "ReviewFetchError")
       => /\ ~ApprovedIn(reviews)
          /\ pc = "exited"
          /\ exit_code = 1
          /\ failure = Msg("NotApproved", pr_numbers[n_idx], <<>>)
          /\ events[Len(events)] = FailureComment(failure)
          /\ PollRequests = <<>>
    /\ failure.kind = "NotApproved"
       => (Len(ReviewRequests) = n_idx /\ ~ApprovedIn(reviews))

\* C1's case: the second of three PRs has reviews but no approving one, and
\* the third, another PR, was never asked about.
C1_Witness ==
    /\ pc = "exited"
    /\ failure.kind = "NotApproved"
    /\ Len(pr_numbers) = 3
    /\ n_idx = 2
    /\ pr_numbers[3] # pr_numbers[2]
    /\ reviews # <<>>
    /\ ReviewRequests = <<pr_numbers[1], pr_numbers[2]>>

\* C2: the stack integrity check.  Once git log has given its PR numbers, an
\* empty list or a first number other than NUMBER ends the run with the
\* stack-mismatch failure, and no reviews, pull-request-details or status
\* request is ever made; the approval gate and the poller are only reached
\* with pr_numbers[1] = NUMBER.
BadStack == pr_numbers = <<>> \/ pr_numbers[1] # NUMBER
LogDone ==
    /\ EventsOf({"git_log"}) # <<>>
    /\ failure.kind # "LogError"

C2_StackIntegrity ==
    /\ (LogDone /\ BadStack)
       => /\ pc \in {"check_stack", "exited"}
          /\ pc = "exited" => /\ failure = Msg("StackMismatch", 0, <<>>)
                              /\ exit_code = 1
                              /\ events[Len(events)] = FailureComment(failure)
    /\ failure.kind = "StackMismatch" => (LogDone /\ BadStack)
    /\ (RemoteReads # <<>> \/ pc \in {"approvals", "poll_fetch", "poll_settle",
                                      "poll_decide", "returned", "done"})
       => (LogDone /\ ~BadStack)

\* C2's case: input 1, extracted [2, 1].
C2_Witness ==
    /\ pc = "exited"
    /\ failure.kind = "StackMismatch"
    /\ NUMBER = 1
    /\ pr_numbers = <<2, 1>>
    /\ RemoteReads = <<>>

\* ------------------------------------------------------------ the poller
\* the step is a failed must(False, ...) of the poller with this message,
\* and nothing else: one failure comment, exit(1), no sleep
Fatal(kind, names) ==
    /\ pc' = "exited"
    /\ exit_code' = 1
    /\ failure' = Msg(kind, pr_number, names)
    /\ events' = Append(events, EvPost(NUMBER, Msg(kind, pr_number, names)))
    /\ clock' = clock

\* the step is the return of the poller: at most the success note is
\* posted, no request is made and no sleep is taken
Returns ==
    /\ pc' = "returned"
    /\ failure' = NoMsg
    /\ events' \in {events, Append(events, SuccessComment)}
    /\ clock' = clock

Settled == pc = "poll_decide"
KnownStates == {"unknown", "unstable", "blocked", "dirty", "clean"}

\* C3: the terminal mapping.  From a settled merge state, the very next step
\* of the iteration is: blocked -> fatal "blocked from merging"; dirty ->
\* fatal "merge conflicts"; clean -> the poller returns; a value outside
\* {unknown, unstable, blocked, dirty, clean} -> fatal, the message carrying
\* that value.  No fetch and no sleep comes between.
C3_TerminalMapping ==
    [][ Settled =>
          /\ mergeable_state = "blocked" => Fatal("Blocked", <<>>)
          /\ mergeable_state = "dirty" => Fatal("Dirty", <<>>)
          /\ mergeable_state = "clean" => Returns
          /\ mergeable_state \notin KnownStates
               => Fatal("UnexpectedState", <<mergeable_state>>) ]_vars

\* C3's case: the remote reports a state outside the five, and the run has
\* ended on it.
C3_Witness ==
    /\ pc = "exited"
    /\ mergeable_state = "behind"
    /\ failure = Msg("UnexpectedState", pr_number, <<"behind">>)

\* C4: success on unstable.  From a settled "unstable" with the timeout not
\* fired, when the status response holds no failing and no pending record
\* of the blocking set, the step posts the success note and returns: status
\* request, success comment, no sleep, and the merge state still "unstable".
C4_SuccessOnUnstable ==
    [][ (/\ Settled
         /\ mergeable_state = "unstable"
         /\ clock - start_time <= MAX_WAIT_TIME
         /\ failure'.kind # "StatusFetchError"
         /\ ~BlockingHas(statuses', land_blocking_statuses, "failure")
         /\ ~BlockingHas(statuses', land_blocking_statuses, "pending"))
        => /\ pc' = "returned"
           /\ failure' = NoMsg
           /\ events' = events \o <<EvGetStatus(pr_number), SuccessComment>>
           /\ clock' = clock
           /\ mergeable_state' = "unstable" ]_vars

\* C4's case: blocking set {"ci/build"}, status list [ci/build: success],
\* merge state "unstable", and the poller has returned.
C4_Witness ==
    /\ pc = "returned"
    /\ mergeable_state = "unstable"
    /\ land_blocking_statuses = {"ci/build"}
    /\ statuses = <<[context |-> "ci/build", state |-> "success"]>>
    /\ events[Len(events)] = SuccessComment

\* C5: the timeout.  From a settled "unstable" with more than MAX_WAIT_TIME
\* elapsed since the session began, the step is the fatal timeout naming
\* the polled PR: no status request, no sleep.
C5_Timeout ==
    [][ (/\ Settled
         /\ mergeable_state = "unstable"
         /\ clock - start_time > MAX_WAIT_TIME)
        => Fatal("Timeout", <<>>) ]_vars

\* C5's case: the checks were pending on every poll until the time ran out.
C5_Witness ==
    /\ pc = "exited"
    /\ failure = Msg("Timeout", pr_number, <<>>)
    /\ waiting_comment_posted
    /\ MAX_WAIT_TIME = MaxWaitBound
    /\ clock - start_time > MAX_WAIT_TIME
    /\ \A i \in 1..Len(events) : events[i].op = "sleep" => events[i].pr = PollInterval

\* C6 as stated: a merge state that is still unknown after the settle
\* re-fetch does not end the session.
C6_Original ==
    (/\ mergeable_state = "unknown"
     /\ iter_fetches = 2
     /\ failure.kind # "PRFetchRetryError")
    => ~Ended

\* C6, amended: a merge state that is still unknown after the one settle
\* re-fetch ends the session in that iteration, fatally, with the
\* unexpected-state message carrying "unknown"; it is never re-polled.
C6_PersistentUnknownFatal ==
    [][ (Settled /\ mergeable_state = "unknown")
        => (iter_fetches = 2 /\ Fatal("UnexpectedState", <<"unknown">>)) ]_vars

\* C6's case: unknown, then unknown again, and the run has ended.
C6_Witness ==
    /\ pc = "exited"
    /\ iter_fetches = 2
    /\ mergeable_state = "unknown"
    /\ failure = Msg("UnexpectedState", pr_number, <<"unknown">>)
    /\ EventsOf({"sleep"}) = <<EvSleep(SettlePause)>>

\* ---------------------------------------------------------- the comments
CommentKind(e) ==
    IF e.msg.kind = "Waiting" THEN "waiting"
    ELSE IF e.msg.kind = "Success" THEN "success"
    ELSE "failure"
CommentKinds == [i \in 1..Len(Comments) |-> CommentKind(Comments[i])]

\* C10 as stated: a complete run leaves a single failure comment, or a
\* waiting comment followed by a success comment.
C10_Original ==
    Ended => CommentKinds \in {<<"failure">>, <<"waiting", "success">>}

\* C10, amended: a complete run leaves one of five sequences.  Exit status
\* 0: no comment at all (clean at once), a success comment alone (unstable
\* with passing blocking checks), or waiting then success.  Exit status 1: a
\* failure comment alone, or waiting then failure.  All are on the thread
\* of the input PR.
C10_CommentSequences ==
    /\ \A i \in 1..Len(Comments) : Comments[i].pr = NUMBER
    /\ Ended =>
         /\ exit_code = 0 =>
              CommentKinds \in {<<>>, <<"success">>, <<"waiting", "success">>}
         /\ exit_code # 0 =>
              CommentKinds \in {<<"failure">>, <<"waiting", "failure">>}

\* C10's case: a run that waited and then failed.
C10_Witness ==
    /\ pc = "exited"
    /\ CommentKinds = <<"waiting", "failure">>

\* ------------------------------------------------- the run as a whole
FailureComments == SelectSeq(Comments, LAMBDA e : CommentKind(e) = "failure")
GitEvents == EventsOf({"git_fetch", "git_log"})

\* C11: exit status and the single fatal path.  The run ends with status 0
\* exactly at "All PRs are ready to be landed", and then the ref was valid,
\* both fetches and the log were run, the stack began with NUMBER, a reviews
\* request was made and passed for every PR of the stack, the poller
\* returned, and no failure comment exists.  A failed must is the only other
\* end: status 1, exactly one failure comment, which is the last thing the
\* run did, and no step follows.
C11_ExitStatus ==
    /\ exit_code \in {-1, 0, 1}
    /\ exit_code = 0 <=> pc = "done"
    /\ exit_code = 1 <=> pc = "exited"
    /\ failure # NoMsg <=> pc = "exited"
    /\ pc = "done" =>
         /\ valid_head_ref(head_ref)
         /\ GitEvents = <<EvGitFetch(Str_main), EvGitFetch(orig_ref), EvGitLog>>
         /\ ~BadStack
         /\ ReviewRequests = pr_numbers
         /\ PollRequests # <<>>
         /\ mergeable_state \in {"clean", "unstable"}
         /\ FailureComments = <<>>
         /\ ~ENABLED Next
    /\ pc = "exited" =>
         /\ FailureComments = <<FailureComment(failure)>>
         /\ events[Len(events)] = FailureComment(failure)
         /\ ~ENABLED Next
    /\ pc \notin {"done", "exited"} => FailureComments = <<>>

\* C11's case: a must of the poller failed late in the run, after the run
\* had waited; one failure comment, status 1.
C11_Witness ==
    /\ pc = "exited"
    /\ exit_code = 1
    /\ failure.kind = "FailedChecks"
    /\ waiting_comment_posted
    /\ Len(FailureComments) = 1

\* everything the run did but the comments
Work == EventsOf({"git_fetch", "git_log", "get_reviews", "get_pr", "get_status",
                  "sleep"})
PollPhase == EventsOf({"get_pr", "get_status", "sleep"})
IsPrefix(a, b) == Len(a) <= Len(b) /\ a = SubSeq(b, 1, Len(a))

\* C12: the order of the pipeline.  What the run did is, in this order: the
\* fetch of main, the fetch of the orig ref, git log, the reviews requests
\* (for a prefix of the stack, in stack order), and then what the poller
\* does.  Nothing is done before the ref is found valid, no reviews request
\* before the stack integrity check has passed, and no pull-request-details
\* or status request (and no sleep) before a reviews request was made, and
\* passed, for every PR of the stack.
C12_PipelineOrder ==
    /\ Work = GitEvents \o EventsOf({"get_reviews"}) \o PollPhase
    /\ IsPrefix(GitEvents, <<EvGitFetch(Str_main), EvGitFetch(orig_ref), EvGitLog>>)
    /\ Work # <<>> => valid_head_ref(head_ref)
    /\ ReviewRequests # <<>> => (Len(GitEvents) = 3 /\ ~BadStack)
    /\ IsPrefix(ReviewRequests, pr_numbers)
    /\ (PollPhase # <<>> \/ pc \in {"poll_fetch", "poll_settle", "poll_decide",
                                    "returned", "done"})
       => /\ ReviewRequests = pr_numbers
          /\ pr_numbers # <<>>
          /\ n_idx = Len(pr_numbers) + 1

\* C12's case: the poller is at work on a stack of three PRs, not all the
\* same.
C12_Witness ==
    /\ PollRequests # <<>>
    /\ Len(pr_numbers) = 3
    /\ pr_numbers[2] # pr_numbers[1]
    /\ ReviewRequests = pr_numbers

\* ------------------------------------------------------ the poll session
WaitingComments == SelectSeq(Comments, LAMBDA e : CommentKind(e) = "waiting")
SuccessComments == SelectSeq(Comments, LAMBDA e : CommentKind(e) = "success")
WaitingComment == EvPost(pr_number, Msg("Waiting", pr_number, <<>>))
\* the positions in events of the sleeps of the fixed interval
LongSleepAt == {i \in 1..Len(events) : events[i] = EvSleep(PollInterval)}

C13_State ==
    /\ Len(WaitingComments) <= 1
    /\ waiting_comment_posted <=> Len(WaitingComments) = 1
    /\ waiting_comment_posted <=> LongSleepAt # {}
    /\ (pc = "poll_fetch" /\ PollPhase = <<>>) => ~waiting_comment_posted
    /\ \A i \in LongSleepAt :
          IF \A j \in LongSleepAt : i <= j
          THEN /\ i > 2
               /\ events[i - 1] = WaitingComment
               /\ events[i - 2] = EvGetStatus(pr_number)
          ELSE events[i - 1] = EvGetStatus(pr_number)

\* C13: the one-time waiting note.  The flag is false when the session
\* starts and is never reset; at most one waiting comment is posted; it is
\* posted in the first pending iteration, between the status request and
\* the sleep of the fixed interval, and every later pending iteration goes
\* from the status request straight to the sleep.
C13_WaitingOnce ==
    /\ []C13_State
    /\ [][waiting_comment_posted => waiting_comment_posted']_vars

\* C13's case: two pending iterations, one waiting comment.
C13_Witness ==
    /\ Cardinality(LongSleepAt) = 2
    /\ Len(WaitingComments) = 1
    /\ waiting_comment_posted

\* C14: the success note on clean.  A session that returns on merge state
\* clean has posted a success note exactly when it had posted a waiting note
\* before; without one it has posted nothing at all.  No session posts two
\* success notes, and a success note is the last thing a run does before it
\* ends with status 0.
C14_SuccessNoteOnClean ==
    /\ Len(SuccessComments) <= 1
    /\ SuccessComments # <<>> =>
         /\ events[Len(events)] = SuccessComment
         /\ pc \in {"returned", "done"}
    /\ (pc \in {"returned", "done"} /\ mergeable_state = "clean") =>
         /\ SuccessComments # <<>> <=> WaitingComments # <<>>
         /\ WaitingComments = <<>> => Comments = <<>>
         /\ WaitingComments # <<>> => Comments = <<WaitingComment, SuccessComment>>

\* C14's case: the session waited, then saw clean, and posted the note.
C14_Witness ==
    /\ pc = "returned"
    /\ mergeable_state = "clean"
    /\ CommentKinds = <<"waiting", "success">>

\* the events of the poll iteration under way: those after the last sleep
\* of the fixed interval
IterEvents ==
    LET last == IF LongSleepAt = {} THEN 0
                ELSE CHOOSE i \in LongSleepAt : \A j \in LongSleepAt : j <= i
    IN  SelectSeq(SubSeq(events, last + 1, Len(events)),
                  LAMBDA e : e.op \in {"get_pr", "get_status", "sleep"})
FetchCount(evs) == Len(SelectSeq(evs, LAMBDA e : e.op = "get_pr"))
IterFetches == FetchCount(IterEvents)

C15_State ==
    LET ie == IterEvents
        n == FetchCount(ie)
    IN  /\ n <= 2
        /\ n = 2 =>
             SubSeq(ie, 1, 3)
               = <<EvGetPR(pr_number), EvSleep(SettlePause), EvGetPR(pr_number)>>
        /\ n < 2 => EvSleep(SettlePause) \notin Range(ie)
        /\ pc = "poll_settle" <=> (/\ n = 1
                                   /\ mergeable_state = "unknown"
                                   /\ failure = NoMsg)
        /\ pc = "poll_decide" => /\ n >= 1
                                 /\ events[Len(events)] = EvGetPR(pr_number)
                                 /\ n = 1 => mergeable_state # "unknown"

\* a step of the run, seen through the events it adds
C15_Step ==
    LET new == SubSeq(events', Len(events) + 1, Len(events'))
        settle == <<EvSleep(SettlePause), EvGetPR(pr_number)>>
    IN  /\ (\E i \in 1..Len(new) : new[i].op = "get_pr") =>
             \/ pc = "poll_fetch" /\ new[1] = EvGetPR(pr_number)
             \/ /\ pc = "poll_settle"
                /\ mergeable_state = "unknown"
                /\ SubSeq(new, 1, 2) = settle
        /\ pc = "poll_settle" => (Len(new) >= 2 /\ SubSeq(new, 1, 2) = settle)
        /\ pc = "poll_decide" =>
             \A i \in 1..Len(new) :
                /\ new[i].op \in {"get_status", "post_comment", "sleep"}
                /\ new[i].op = "get_status" => i = 1
                /\ new[i].op = "sleep" => /\ new[i] = EvSleep(PollInterval)
                                          /\ i = Len(new)
                                          /\ pc' = "poll_fetch"

\* C15: the bounded settle retry.  One poll iteration asks for the
\* pull-request details at most twice.  The second request comes right
\* after the first and the brief pause, it is made exactly when the first
\* answer was "unknown" (or had no mergeable_state), and the decision of the
\* iteration is taken right after the last request of that same iteration.
C15_BoundedSettle ==
    /\ []C15_State
    /\ [][C15_Step]_vars

\* C15's case: in a later iteration the first answer was unknown and the
\* refreshed one is clean.
C15_Witness ==
    /\ pc = "poll_decide"
    /\ LongSleepAt # {}
    /\ IterFetches = 2
    /\ mergeable_state = "clean"

\* the seconds slept so far: all sleeps are those of the poll session
RECURSIVE SumSleeps(_)
SumSleeps(evs) ==
    IF evs = <<>> THEN 0
    ELSE (IF Head(evs).op = "sleep" THEN Head(evs).pr ELSE 0) + SumSleeps(Tail(evs))
Elapsed == SumSleeps(events)
SettleSlept == SumSleeps(SelectSeq(events, LAMBDA e : e = EvSleep(SettlePause)))

\* C16: the timeout is checked before the statuses.  From a settled
\* "unstable": with more seconds slept in the session (settle pauses
\* included) than MAX_WAIT_TIME, the step is the fatal timeout and makes no
\* status request; with as many or fewer, the step begins with the status
\* request, and ends in the failure of that request, in failing checks, in
\* the return, or in the wait.
C16_TimeoutBeforeStatuses ==
    [][ (Settled /\ mergeable_state = "unstable") =>
          IF Elapsed > MAX_WAIT_TIME
          THEN /\ Fatal("Timeout", <<>>)
               /\ EventsOf({"get_status"})' = EventsOf({"get_status"})
          ELSE /\ Len(events') > Len(events)
               /\ events'[Len(events) + 1] = EvGetStatus(pr_number)
               /\ \/ failure'.kind \in {"StatusFetchError", "FailedChecks"}
                  \/ (pc' = "returned" /\ status_result' = "success")
                  \/ (pc' = "poll_fetch" /\ status_result' = "pending") ]_vars

\* C16's case: the time ran out only because of the settle pauses.
C16_Witness ==
    /\ pc = "exited"
    /\ failure.kind = "Timeout"
    /\ Elapsed > MAX_WAIT_TIME
    /\ Elapsed - SettleSlept <= MAX_WAIT_TIME

\* ------------------------------------------------------------ termination
\* The run is one sequential process: a step that can be taken is taken
\* (every remote call returns, every sleep ends).
SpecFair == Spec /\ WF_vars(Next)

\* the sleeps of the fixed interval a session can take
WaitBound == (MAX_WAIT_TIME \div PollInterval) + 1
C17_State == Cardinality(LongSleepAt) <= WaitBound

\* A measure of what is left of the run: the waits the session may still
\* take, four steps for each, after the stages before the poller.
PollRank == 4 * (WaitBound - Cardinality(LongSleepAt))
Rank ==
    CASE pc = "validate_ref" -> 4 * WaitBound + MaxStack + 10
      [] pc = "fetch_main" -> 4 * WaitBound + MaxStack + 9
      [] pc = "fetch_orig" -> 4 * WaitBound + MaxStack + 8
      [] pc = "git_log" -> 4 * WaitBound + MaxStack + 7
      [] pc = "check_stack" -> 4 * WaitBound + Len(pr_numbers) + 6
      [] pc = "approvals" -> 4 * WaitBound + (Len(pr_numbers) + 1 - n_idx) + 5
      [] pc = "poll_fetch" -> PollRank + 4
      [] pc = "poll_settle" -> PollRank + 3
      [] pc = "poll_decide" -> PollRank + 2
      [] pc = "returned" -> 1
      [] OTHER -> 0

\* a step lowers the measure, and the poller starts another iteration only
\* from a timely "unstable" with a blocking status pending and none failed,
\* after the sleep of the fixed interval
C17_Step ==
    /\ Rank' < Rank
    /\ (pc' = "poll_fetch" /\ pc \notin {"poll_fetch", "approvals"})
          => /\ pc = "poll_decide"
             /\ mergeable_state = "unstable"
             /\ BlockingHas(statuses', land_blocking_statuses, "pending")
             /\ ~BlockingHas(statuses', land_blocking_statuses, "failure")
             /\ events'[Len(events')] = EvSleep(PollInterval)

\* C17: the poll session terminates.  Every step of the run lowers a
\* measure that is never negative, and a run that has not ended can take a
\* step, so every run ends, in success or in a fatal failure.  The loop
\* goes back to its top only from "unstable" with the blocking checks
\* pending, after the sleep of the fixed interval, and a session takes at
\* most MAX_WAIT_TIME / 30 + 1 of these sleeps, whatever the remote answers.
C17_Terminates ==
    /\ []C17_State
    /\ [](Rank >= 0)
    /\ [](Ended \/ ENABLED Next)
    /\ [][C17_Step]_vars

\* the same as a liveness property of the fair run
C17_Liveness == <>Ended

\* C17's case: a session that waited as often as the bound allows and then
\* ended.
C17_Witness ==
    /\ Ended
    /\ MAX_WAIT_TIME = MaxWaitBound
    /\ Cardinality(LongSleepAt) = WaitBound

\* ------------------------------------------- the blocking list as shipped
\* land_blocking_statuses as lines 15-17 have it: empty
InitSource == Init /\ land_blocking_statuses = {}
SpecSource == InitSource /\ [][Next]_vars

\* C18: with the empty blocking list of the source, check_blocking_statuses
\* gives ("success", []) for every status list; a session whose status
\* request is answered returns in that iteration with the success note; no
\* waiting note is posted, no sleep of the fixed interval is taken, and no
\* run fails for failing status checks.
C18_EmptyBlockingSet ==
    /\ pc = "validate_ref" =>
         \A sts \in StatusLists :
            check_blocking_statuses(sts, land_blocking_statuses) = <<"success", <<>>>>
    /\ WaitingComments = <<>>
    /\ ~waiting_comment_posted
    /\ LongSleepAt = {}
    /\ failure.kind # "FailedChecks"
    /\ status_result \in {"", "success"}
    /\ relevant_statuses = <<>>
    /\ (EventsOf({"get_status"}) # <<>> /\ failure.kind # "StatusFetchError") =>
         /\ pc \in {"returned", "done"}
         /\ events[Len(events)] = SuccessComment
         /\ Len(EventsOf({"get_status"})) = 1

\* C18's case: unstable, a status list with a failing and a pending record,
\* and the poller has returned with the success note.
C18_Witness ==
    /\ land_blocking_statuses = {}
    /\ pc = "returned"
    /\ mergeable_state = "unstable"
    /\ \E i \in 1..Len(statuses) : statuses[i].state = "failure"
    /\ \E i \in 1..Len(statuses) : statuses[i].state = "pending"
    /\ Comments = <<SuccessComment>>

\* ------------------------------------------- head refs of several authors
\* accepted head refs whose author is, or begins with, "head"
Ref_head == <<"g","h","/","h","e","a","d","/","1","/","h","e","a","d">>
Ref_heads == <<"g","h","/","h","e","a","d","s","/","1","/","h","e","a","d">>
AuthorRefs == {Ref_alice, Ref_head, Ref_heads, Ref_feature}

InitRefs ==
    /\ pc = "validate_ref"
    /\ NUMBER \in PRs
    /\ head_ref \in AuthorRefs
    /\ MAX_WAIT_TIME \in MaxWaitTimes
    /\ land_blocking_statuses = {}
    /\ Defaults
SpecRefs == InitRefs /\ [][Next]_vars

\* s with its last five characters, the trailing "/head", turned into "/orig"
trailing_orig(s) == SubSeq(s, 1, Len(s) - Len(Str_head)) \o Str_orig

\* the refs handed to git fetch, in order
FetchedRefs ==
    LET g == EventsOf({"git_fetch"}) IN [i \in 1..Len(g) |-> g[i].msg.names]

\* C19: for every accepted head ref gh/<author>/<index>/head the ref fetched
\* as the orig branch is gh/<author>/<index>/orig, with the same author and
\* index: only the trailing "/head" is replaced by "/orig".
C19_Original ==
    /\ (pc # "validate_ref" /\ valid_head_ref(head_ref)) =>
         orig_ref = trailing_orig(head_ref)
    /\ \A i \in 1..Len(FetchedRefs) :
         FetchedRefs[i] \in {Str_main, trailing_orig(head_ref)}

\* C19, the run that departs from it: the head ref is gh/head/1/head and the
\* ref that was fetched as its orig branch is gh/orig/1/orig.
C19_Divergence ==
    /\ head_ref = Ref_head
    /\ Len(FetchedRefs) = 2
    /\ FetchedRefs[2] = <<"g","h","/","o","r","i","g","/","1","/","o","r","i","g">>
    /\ FetchedRefs[2] # trailing_orig(head_ref)

\* C19, what the code does: every "/head" of the ref is replaced, so the
\* fetched ref is the trailing replacement exactly when "/head" occurs in
\* the head ref once.
C19_ReplacesEvery ==
    \A i \in 1..Len(FetchedRefs) :
        \/ FetchedRefs[i] = Str_main
        \/ /\ FetchedRefs[i] = str_replace(head_ref, Str_head, Str_orig)
           /\ (FetchedRefs[i] = trailing_orig(head_ref)) <=> (head_ref = Ref_alice)

\* ------------------------------------------------- the PR that is polled
\* the PRs of the stack below its head
OtherPRs == Range(pr_numbers) \ {NUMBER}

\* C20: pull-request-details and commit-status requests are issued only for
\* the first PR of the stack, which is the input PR number; the other PRs of
\* the stack are asked for their reviews and nothing else, so no merge state
\* of theirs is ever read.  (A sleep event carries its seconds, not a PR.)
C20_OnlyHeadPolled ==
    /\ \A i \in 1..Len(PollRequests) :
         /\ pr_numbers # <<>>
         /\ PollRequests[i].pr = pr_numbers[1]
         /\ PollRequests[i].pr = NUMBER
    /\ \A i \in 1..Len(events) :
         (events[i].op # "sleep" /\ events[i].pr \in OtherPRs) =>
            events[i].op = "get_reviews"
    /\ pc \in {"poll_fetch", "poll_settle", "poll_decide", "returned"} =>
         pr_number = NUMBER

\* C20's case: a stack of two PRs, both reviewed, the head polled, and the
\* run ended with status 0 without any request for the other PR's state.
C20_Witness ==
    /\ pc = "done"
    /\ exit_code = 0
    /\ Len(pr_numbers) >= 2
    /\ OtherPRs # {}
    /\ OtherPRs \subseteq Range(ReviewRequests)
    /\ Len(PollRequests) >= 2

====
